---- MODULE Spec2Model ----
(***************************************************************************)
(* Network-topology library (models/mlp.py) and the TD3 experiment         *)
(* assembly (projects/policy_based/TD3_BipedalWalker-v2.py).               *)
(*                                                                         *)
(* Python objects live in a heap: a sequence of records, an object's       *)
(* identity being its index.  Modules refer to their sub-modules and       *)
(* parameters by identity, so that sharing of one object between two       *)
(* owners is visible.  A parameter tensor is abstracted to one value and   *)
(* its shape; a data tensor to its batch size, its trailing width and the  *)
(* identities of the modules that were applied to it, in order.            *)
(***************************************************************************)
EXTENDS Integers, Sequences, FiniteSets, TLC

VARIABLES heap,    \* the objects: modules and parameter tensors
          rng,     \* state of torch's random generator
          pc,      \* position of the driver / of init_model
          call,    \* arguments of the constructor call that was made
          net,     \* the object the constructor returned (0: none)
          err,     \* the exception that was raised ("none": none)
          out,     \* what forward returned
          models,  \* init_model's local names -> objects
          optims,  \* optimizer name -> the parameter tensors it is bound to
          writes   \* parameter writes made after init_model returned

vars == <<heap, rng, pc, call, net, err, out, models, optims, writes>>

----------------------------------------------------------------------------
(* Bounds of the model. *)

\* sizes given to the constructors are drawn from -1..MaxSize
MaxSize == 2
\* hidden_sizes of a plain MLP has at most MaxHidden entries
MaxHidden == 2
\* hidden_sizes of a distribution head has at most MaxHeadHidden entries
MaxHeadHidden == 1
\* input batches have 1..MaxBatch rows
MaxBatch == 2
\* the generator is seeded with 0..MaxSeed
MaxSeed == 2
\* the sigma branch's value is raw = r / RawScale
RawScale == 2
\* the value a non-squashing sigma activation can produce is within +-RawSpan
RawSpan == 2
\* the algorithm collaborator writes at most MaxWrites parameters
MaxWrites == 1

----------------------------------------------------------------------------
(* Generic helpers. *)

NoErr == "none"

Max2(a, b) == IF a >= b THEN a ELSE b

Min2(a, b) == IF a <= b THEN a ELSE b

Range(s) == {s[i] : i \in 1..Len(s)}

\* all sequences over S of length at most n
RECURSIVE SeqsUpTo(_, _)
SeqsUpTo(S, n) ==
    IF n = 0 THEN {<<>>}
    ELSE LET shorter == SeqsUpTo(S, n - 1)
         IN  shorter \cup {Append(s, x) : s \in {t \in shorter : Len(t) = n - 1}, x \in S}

\* F applied to the value of x, x being evaluated once
Bind(x, F(_)) == CHOOSE r \in {F(v) : v \in {x}} : TRUE

\* a sequence without its repeated elements, first occurrences kept
RECURSIVE Dedup(_)
Dedup(s) ==
    IF s = <<>> THEN <<>>
    ELSE LET front == Dedup(SubSeq(s, 1, Len(s) - 1))
             last  == s[Len(s)]
         IN  IF last \in Range(front) THEN front ELSE Append(front, last)

----------------------------------------------------------------------------
(* torch: objects, the random generator, nn.Linear, nn.Module. *)

\* a fresh object of the given kind
Obj(kind) ==
    [kind |-> kind, children |-> <<>>, params |-> <<>>,
     inF |-> 0, outF |-> 0, val |-> 0, ninit |-> 0,
     share_net |-> FALSE, std_ones |-> FALSE,
     log_std_min |-> 0, log_std_max |-> 0]

\* the activation objects that the def statements of models/mlp.py create
\* once, as default argument values, when the module is imported
MLP_output_activation == 1
MLP_hidden_activation == 2
NormalDistMLP_mu_activation == 3
NormalDistMLP_sigma_activation == 4
NormalDistMLP_hidden_activation == 5
GaussianDistMLP_mu_activation == 6
GaussianDistMLP_sigma_activation == 7
GaussianDistMLP_hidden_activation == 8
CategoricalMLP_output_activation == 9
CategoricalMLP_hidden_activation == 10

DefaultHeap ==
    <<Obj("Sequential"), Obj("ReLU"),
      Obj("Sequential"), Obj("Sequential"), Obj("ReLU"),
      Obj("Sequential"), Obj("Tanh"), Obj("ReLU"),
      Obj("Softmax"), Obj("ReLU")>>

\* the interpreter's state threaded through a call: heap, generator,
\* pending exception, value returned
World(h, r) == [heap |-> h, rng |-> r, err |-> NoErr, ret |-> 0]

Raise(W, e) == [W EXCEPT !.err = e, !.ret = 0]

Alloc(W, o) == [W EXCEPT !.heap = Append(@, o), !.ret = Len(W.heap) + 1]

\* torch's generator: a deterministic sequence from the seed
NextRng(r) == (5 * r + 3) % 16

\* the value drawn in generator state r; never the degenerate 0
DrawVal(r) == <<-2, -1, 1, 2>>[(r \div 4) + 1]

\* nn.Linear(in_features, out_features): weight and bias are new parameter
\* tensors filled from the generator.  A negative dimension is refused by
\* the tensor constructor; an initializer dividing by a zero fan-in raises
\* on the builds of torch that do not special-case empty tensors.
Linear(W, in_features, out_features, zero_fan_raises) ==
    IF W.err # NoErr THEN W
    ELSE IF in_features < 0 \/ out_features < 0 THEN Raise(W, "RuntimeError")
    ELSE IF in_features = 0 /\ zero_fan_raises THEN Raise(W, "ZeroDivisionError")
    ELSE LET n      == Len(W.heap)
             r1     == NextRng(W.rng)
             weight == [Obj("Parameter") EXCEPT
                        !.inF = in_features, !.outF = out_features,
                        !.val = DrawVal(W.rng)]
             bias   == [Obj("Parameter") EXCEPT
                        !.outF = out_features, !.val = DrawVal(r1)]
             linear == [Obj("Linear") EXCEPT
                        !.inF = in_features, !.outF = out_features,
                        !.params = <<n + 1, n + 2>>]
         IN  [W EXCEPT !.heap = @ \o <<weight, bias, linear>>,
                       !.rng = NextRng(r1), !.ret = n + 3]

\* an activation object made at the call site: nn.Tanh(), nn.ReLU(), ...
NewActivation(W, kind) == IF W.err # NoErr THEN W ELSE Alloc(W, Obj(kind))

\* parent.add_module(name, child), and parent.<name> = child of a Module
add_module(W, parent, name, idx, child) ==
    IF W.err # NoErr THEN W
    ELSE [W EXCEPT !.heap[parent].children =
              Append(@, [name |-> name, idx |-> idx, id |-> child])]

\* the child registered under a name (0: no such attribute)
Child(h, m, name, idx) ==
    LET hits == {i \in 1..Len(h[m].children) :
                    h[m].children[i].name = name /\ h[m].children[i].idx = idx}
    IN  IF hits = {} THEN 0 ELSE h[m].children[CHOOSE i \in hits : TRUE].id

\* Module.children(): the registered sub-modules, each object once
Children(h, m) == Dedup([i \in 1..Len(h[m].children) |-> h[m].children[i].id])

\* models.initializer.init_linear_weights_xavier(m): redraws the weight of
\* an affine module with variance 2 / (fan_in + fan_out), leaves its bias
\* and every other module alone
init_linear_weights_xavier(W, m) ==
    IF W.err # NoErr THEN W
    ELSE IF W.heap[m].kind # "Linear" THEN W
    ELSE IF W.heap[m].inF + W.heap[m].outF = 0 THEN Raise(W, "ZeroDivisionError")
    ELSE      [W EXCEPT !.heap[W.heap[m].params[1]].val = DrawVal(W.rng),
                        !.heap[m].ninit = @ + 1,
                        !.rng = NextRng(W.rng)]

\* Module.apply(fn): fn on every sub-module, children first, then on self
RECURSIVE apply(_, _), applyEach(_, _, _)
apply(W, m) ==
    Bind(applyEach(W, Children(W.heap, m), 1),
         LAMBDA W1 : init_linear_weights_xavier(W1, m))

applyEach(W, ms, i) ==
    IF i > Len(ms) THEN W
    ELSE Bind(apply(W, ms[i]), LAMBDA W1 : applyEach(W1, ms, i + 1))

\* Module.parameters(): own parameters, then the sub-modules', each once
RECURSIVE ParamSeq(_, _), ParamSeqEach(_, _, _)
ParamSeq(h, m) == h[m].params \o ParamSeqEach(h, Children(h, m), 1)

ParamSeqEach(h, ms, i) ==
    IF i > Len(ms) THEN <<>> ELSE ParamSeq(h, ms[i]) \o ParamSeqEach(h, ms, i + 1)

Parameters(h, m) == Dedup(ParamSeq(h, m))

\* Module.modules(): m and every module below it in registration order,
\* each object once; `seen` is the memo of the traversal
RECURSIVE ModuleSeqEach(_, _, _, _)
ModuleSeqEach(h, ms, i, seen) ==
    IF i > Len(ms) THEN seen
    ELSE IF ms[i] \in Range(seen) THEN ModuleSeqEach(h, ms, i + 1, seen)
    ELSE Bind(ModuleSeqEach(h, [k \in 1..Len(h[ms[i]].children) |->
                                   h[ms[i]].children[k].id],
                            1, Append(seen, ms[i])),
              LAMBDA seen1 : ModuleSeqEach(h, ms, i + 1, seen1))

ModuleSeq(h, m) == ModuleSeqEach(h, <<m>>, 1, <<>>)

----------------------------------------------------------------------------
(* Forward passes of the torch modules. *)

\* an input batch
Tensor(batch, width) ==
    [batch |-> batch, width |-> width, ops |-> <<>>, src |-> "x", err |-> NoErr]

NoTensor == [batch |-> 0, width |-> 0, ops |-> <<>>, src |-> "none", err |-> NoErr]

\* torch.ones_like(t)
ones_like(t) == [batch |-> t.batch, width |-> t.width, ops |-> <<>>,
                 src |-> "ones", err |-> t.err]

IsActivation(kind) == kind \in {"ReLU", "Tanh", "Softmax"}

\* m(t) for a torch module m: an affine module checks the trailing width,
\* an activation keeps the shape, a container applies its children in order
\* (an empty nn.Sequential returns its input)
RECURSIVE CallModule(_, _, _), CallEach(_, _, _, _)
CallModule(h, m, t) ==
    IF t.err # NoErr THEN t
    ELSE IF m = 0 THEN [t EXCEPT !.err = "AttributeError"]
    ELSE IF h[m].kind = "Linear"
         THEN IF t.width # h[m].inF THEN [t EXCEPT !.err = "RuntimeError"]
              ELSE [t EXCEPT !.width = h[m].outF, !.ops = Append(@, m)]
    ELSE IF IsActivation(h[m].kind) THEN [t EXCEPT !.ops = Append(@, m)]
    ELSE CallEach(h, [i \in 1..Len(h[m].children) |-> h[m].children[i].id], 1, t)

CallEach(h, ms, i, t) ==
    IF i > Len(ms) THEN t
    ELSE Bind(CallModule(h, ms[i], t), LAMBDA t1 : CallEach(h, ms, i + 1, t1))

\* Values of a tensor's elements are exact fractions: an element is
\* raw / RawScale.  The values the least element of t can take, by what
\* produced t: ones_like gives exactly 1, tanh saturates to exactly -1 and 1
\* in floating point, relu is never negative, softmax lies in [0, 1]
\* (it underflows to exactly 0), an affine output or the input itself is
\* unconstrained
RawValues(h, t) ==
    LET last == IF t.ops = <<>> THEN "x" ELSE h[t.ops[Len(t.ops)]].kind
    IN  IF t.src = "ones" THEN {RawScale}
        ELSE IF last = "Tanh" THEN (-RawScale)..RawScale
        ELSE IF last = "Softmax" THEN 0..RawScale
        ELSE IF last = "ReLU" THEN 0..(RawSpan * RawScale)
        ELSE (-(RawSpan * RawScale))..(RawSpan * RawScale)

\* torch.distributions.Normal(loc, scale), `least` the least element of
\* scale: a build that validates distribution arguments raises ValueError
\* unless every element of scale is positive (an empty scale has none)
Normal(scale, least, validate_args) ==
    IF validate_args /\ scale.batch * scale.width > 0 /\ least <= 0
    THEN "ValueError" ELSE NoErr

\* whether the rows of probs, divided by their sums as Categorical does,
\* can be and can fail to be a simplex: an empty row sums to 0, a softmax
\* row is one, any other row can have a negative entry or sum to 0
SimplexOutcomes(h, probs) ==
    LET last == IF probs.ops = <<>> THEN "x" ELSE h[probs.ops[Len(probs.ops)]].kind
    IN  IF probs.width = 0 THEN {FALSE}
        ELSE IF last = "Softmax" THEN {TRUE}
        ELSE BOOLEAN

\* torch.distributions.Categorical(probs): a build that validates
\* distribution arguments raises ValueError unless the rows are a simplex
Categorical(simplex, validate_args) ==
    IF validate_args /\ ~simplex THEN "ValueError" ELSE NoErr

----------------------------------------------------------------------------
(* models/mlp.py: MLP *)

\* the loop body without its last statement: prev_size is never advanced
NextPrevSize_stale(prev_size, next_size) == prev_size

\* "prev_size = next_size" at the end of the loop body
NextPrevSize(prev_size, next_size) == next_size

\* the output layer added whatever output_size is
OutputLayerUsed_always(output_size) == TRUE

\* "if output_size:" (an int is true unless it is 0)
OutputLayerUsed(output_size) == output_size # 0

\* the loop over enumerate(hidden_sizes), from entry k on; returns prev_size
RECURSIVE HiddenLayers(_, _, _, _, _, _, _)
HiddenLayers(W, fcs, prev_size, hidden_sizes, k, hidden_activation, zfr) ==
    IF W.err # NoErr \/ k > Len(hidden_sizes) THEN [W EXCEPT !.ret = prev_size]
    ELSE LET next_size == hidden_sizes[k]
         IN  Bind(Linear(W, prev_size, next_size, zfr), LAMBDA W1 :
             Bind(add_module(W1, fcs, "hidden_fc", k - 1, W1.ret), LAMBDA W2 :
             Bind(add_module(W2, fcs, "hidden_fc_act", k - 1, hidden_activation),
                  LAMBDA W3 :
             Bind(NextPrevSize(prev_size, next_size), LAMBDA prev :
             HiddenLayers(W3, fcs, prev, hidden_sizes, k + 1,
                          hidden_activation, zfr)))))

\* MLP.__init__; an exception leaves the caller without any object
MLP_init(W, input_size, hidden_sizes, output_size, output_activation, hidden_activation, zfr) ==
    IF W.err # NoErr THEN W
    ELSE LET self == Len(W.heap) + 1
             fcs  == Len(W.heap) + 2
         IN  Bind(Alloc(W, Obj("MLP")), LAMBDA W1 :
             Bind(Alloc(W1, Obj("Sequential")), LAMBDA W2 :
             Bind(add_module(W2, self, "fcs", -1, fcs), LAMBDA W3 :
             Bind(HiddenLayers(W3, fcs, input_size, hidden_sizes, 1,
                               hidden_activation, zfr), LAMBDA W4 :
             Bind(IF OutputLayerUsed(output_size)
                  THEN Bind(Linear(W4, W4.ret, output_size, zfr), LAMBDA L :
                       Bind(add_module(L, fcs, "output", -1, L.ret), LAMBDA A :
                       add_module(A, fcs, "output_act", -1, output_activation)))
                  ELSE W4, LAMBDA W5 :
             Bind(apply(W5, self), LAMBDA W6 :
             IF W6.err # NoErr THEN Raise([W EXCEPT !.rng = W6.rng], W6.err)
             ELSE [W6 EXCEPT !.ret = self]))))))

\* MLP.forward
MLP_forward(h, self, x) == CallModule(h, Child(h, self, "fcs", -1), x)

----------------------------------------------------------------------------
(* models/mlp.py: NormalDistMLP *)

\* the branch __init__ takes: "if self.std_ones: ... elif share_net: ... else:"
NormalInitPath(std_ones, share_net) ==
    IF std_ones THEN "mean_only" ELSE IF share_net THEN "shared" ELSE "separate"

\* forward testing share_net before std_ones
NormalForwardPath_share_first(std_ones, share_net) ==
    IF share_net THEN "shared" ELSE IF std_ones THEN "mean_only" ELSE "separate"

\* the branch forward takes: "if self.std_ones: ... elif self.share_net: ... else:"
NormalForwardPath(std_ones, share_net) ==
    IF std_ones THEN "mean_only" ELSE IF share_net THEN "shared" ELSE "separate"

\* "prev_layer = hidden_sizes[-1] if hidden_sizes else input_size"
PrevLayer(input_size, hidden_sizes) ==
    IF hidden_sizes # <<>> THEN hidden_sizes[Len(hidden_sizes)] ELSE input_size

\* self.<name> = nn.Sequential(nn.Linear(prev_layer, output_size), activation)
Projection(W, self, name, prev_layer, output_size, activation, zfr) ==
    Bind(Linear(W, prev_layer, output_size, zfr), LAMBDA L :
    Bind(IF L.err # NoErr THEN L ELSE Alloc(L, Obj("Sequential")), LAMBDA S :
    Bind(add_module(S, S.ret, "", 0, L.ret), LAMBDA A :
    Bind(add_module(A, S.ret, "", 1, activation), LAMBDA B :
    add_module(B, self, name, -1, S.ret)))))

\* self.<name> = MLP(...)
SubMLP(W, self, name, input_size, hidden_sizes, output_size, output_activation, hidden_activation, zfr) ==
    Bind(MLP_init(W, input_size, hidden_sizes, output_size,
                  output_activation, hidden_activation, zfr),
         LAMBDA M : add_module(M, self, name, -1, M.ret))

\* NormalDistMLP.__init__
NormalDistMLP_init(W, input_size, hidden_sizes, output_size, mu_activation, sigma_activation, hidden_activation, share_net, std_ones, zfr) ==
    IF W.err # NoErr THEN W
    ELSE LET self == Len(W.heap) + 1
             path == NormalInitPath(std_ones, share_net)
             prev_layer == PrevLayer(input_size, hidden_sizes)
         IN  Bind(Alloc(W, [Obj("NormalDistMLP") EXCEPT
                            !.share_net = share_net, !.std_ones = std_ones]),
                  LAMBDA W1 :
             Bind(IF path = "mean_only"
                  THEN SubMLP(W1, self, "mu", input_size, hidden_sizes, output_size,
                              mu_activation, hidden_activation, zfr)
                  ELSE IF path = "shared"
                  THEN Bind(SubMLP(W1, self, "hidden_layer", input_size,
                                   hidden_sizes, 0, MLP_output_activation,
                                   hidden_activation, zfr), LAMBDA T :
                       Bind(Projection(T, self, "mu", prev_layer, output_size,
                                       mu_activation, zfr), LAMBDA M :
                       Projection(M, self, "sigma", prev_layer, output_size,
                                  sigma_activation, zfr)))
                  ELSE Bind(SubMLP(W1, self, "mu", input_size, hidden_sizes,
                                   output_size, mu_activation,
                                   hidden_activation, zfr), LAMBDA M :
                       SubMLP(M, self, "sigma", input_size, hidden_sizes,
                              output_size, sigma_activation,
                              hidden_activation, zfr)), LAMBDA W2 :
             Bind(apply(W2, self), LAMBDA W3 :
             IF W3.err # NoErr THEN Raise([W EXCEPT !.rng = W3.rng], W3.err)
             ELSE [W3 EXCEPT !.ret = self])))

\* the first exception among the two branches of a head's forward
HeadErr(mu, sigma) == IF mu.err # NoErr THEN mu.err ELSE sigma.err

\* NormalDistMLP.forward: the (mu, sigma) handed to Normal
NormalDistMLP_forward(h, self, x) ==
    LET path == NormalForwardPath(h[self].std_ones, h[self].share_net)
    IN  IF path = "mean_only"
        THEN Bind(CallModule(h, Child(h, self, "mu", -1), x), LAMBDA mu :
                  [dist |-> "Normal", mu |-> mu, sigma |-> ones_like(mu)])
        ELSE IF path = "shared"
        THEN Bind(CallModule(h, Child(h, self, "hidden_layer", -1), x),
                  LAMBDA hidden_layer :
                  [dist |-> "Normal",
                   mu |-> CallModule(h, Child(h, self, "mu", -1), hidden_layer),
                   sigma |-> CallModule(h, Child(h, self, "sigma", -1), hidden_layer)])
        ELSE [dist |-> "Normal",
              mu |-> CallModule(h, Child(h, self, "mu", -1), x),
              sigma |-> CallModule(h, Child(h, self, "sigma", -1), x)]

----------------------------------------------------------------------------
(* models/mlp.py: GaussianDistMLP *)

DefaultLogStdMin == -20

DefaultLogStdMax == 2

\* the branch __init__ and forward take: "if share_net: ... else:"
GaussianPath(share_net) == IF share_net THEN "shared" ELSE "separate"

\* GaussianDistMLP.__init__
GaussianDistMLP_init(W, input_size, hidden_sizes, output_size, mu_activation, sigma_activation, hidden_activation, share_net, log_std_min, log_std_max, zfr) ==
    IF W.err # NoErr THEN W
    ELSE LET self == Len(W.heap) + 1
             prev_layer == PrevLayer(input_size, hidden_sizes)
         IN  Bind(Alloc(W, [Obj("GaussianDistMLP") EXCEPT
                            !.share_net = share_net,
                            !.log_std_min = log_std_min,
                            !.log_std_max = log_std_max]), LAMBDA W1 :
             Bind(IF GaussianPath(share_net) = "shared"
                  THEN Bind(SubMLP(W1, self, "hidden_layer", input_size,
                                   hidden_sizes, 0, MLP_output_activation,
                                   hidden_activation, zfr), LAMBDA T :
                       Bind(Projection(T, self, "mu", prev_layer, output_size,
                                       mu_activation, zfr), LAMBDA M :
                       Projection(M, self, "sigma", prev_layer, output_size,
                                  sigma_activation, zfr)))
                  ELSE Bind(SubMLP(W1, self, "mu", input_size, hidden_sizes,
                                   output_size, mu_activation,
                                   hidden_activation, zfr), LAMBDA M :
                       SubMLP(M, self, "sigma", input_size, hidden_sizes,
                              output_size, sigma_activation,
                              hidden_activation, zfr)), LAMBDA W2 :
             Bind(apply(W2, self), LAMBDA W3 :
             IF W3.err # NoErr THEN Raise([W EXCEPT !.rng = W3.rng], W3.err)
             ELSE [W3 EXCEPT !.ret = self])))

\* the (mu, sigma) branches of GaussianDistMLP.forward
GaussianDistMLP_branches(h, self, x) ==
    IF GaussianPath(h[self].share_net) = "shared"
    THEN Bind(CallModule(h, Child(h, self, "hidden_layer", -1), x),
              LAMBDA hidden_layer :
              [dist |-> "Normal",
               mu |-> CallModule(h, Child(h, self, "mu", -1), hidden_layer),
               sigma |-> CallModule(h, Child(h, self, "sigma", -1), hidden_layer)])
    ELSE [dist |-> "Normal",
          mu |-> CallModule(h, Child(h, self, "mu", -1), x),
          sigma |-> CallModule(h, Child(h, self, "sigma", -1), x)]

\* log_std is the exact fraction LogStd(...) / LogStdDen of an element
\* raw / RawScale of the sigma branch.  std = exp(log_std) is strictly
\* increasing in log_std, so std is compared by comparing log_std.
LogStdDen == 2 * RawScale

\* the affine map without the shift of sigma by one
LogStd_unshifted(log_std_min, log_std_max, raw) ==
    LogStdDen * log_std_min + (log_std_max - log_std_min) * raw

\* "log_std = log_std_min + 0.5 * (log_std_max - log_std_min) * (sigma + 1)"
LogStd(log_std_min, log_std_max, raw) ==
    LogStdDen * log_std_min + (log_std_max - log_std_min) * (raw + RawScale)

----------------------------------------------------------------------------
(* models/mlp.py: CategoricalMLP *)

\* CategoricalMLP.__init__
CategoricalMLP_init(W, input_size, output_size, hidden_sizes, output_activation, hidden_activation, zfr) ==
    IF W.err # NoErr THEN W
    ELSE LET self == Len(W.heap) + 1
         IN  Bind(Alloc(W, Obj("CategoricalMLP")), LAMBDA W1 :
             Bind(SubMLP(W1, self, "fc", input_size, hidden_sizes, output_size,
                         output_activation, hidden_activation, zfr), LAMBDA W2 :
             Bind(apply(W2, self), LAMBDA W3 :
             IF W3.err # NoErr THEN Raise([W EXCEPT !.rng = W3.rng], W3.err)
             ELSE [W3 EXCEPT !.ret = self])))

\* CategoricalMLP.forward: the probabilities handed to Categorical
CategoricalMLP_forward(h, self, x) == CallModule(h, Child(h, self, "fc", -1), x)

----------------------------------------------------------------------------
(* The driver of the library: one constructor call, then one forward. *)

SizeVals == -1..MaxSize

Builds == BOOLEAN

NoCall == [kind |-> "none", input_size |-> 0, hidden_sizes |-> <<>>,
           output_size |-> 0, output_activation |-> 0, sigma_activation |-> 0,
           hidden_activation |-> 0, share_net |-> FALSE, std_ones |-> FALSE,
           log_std_min |-> 0, log_std_max |-> 0]

NoOut == [dist |-> "none", mu |-> NoTensor, sigma |-> NoTensor,
          x |-> NoTensor, raw |-> 0, log_std |-> 0]

InitLib ==
    /\ heap = DefaultHeap
    /\ rng \in 0..MaxSeed
    /\ pc = "start"
    /\ call = NoCall
    /\ net = 0
    /\ err = NoErr
    /\ out = NoOut
    /\ models = <<>>
    /\ optims = <<>>
    /\ writes = 0

\* what the caller is left with after a constructor call
Constructed(W, c) ==
    /\ heap' = W.heap
    /\ rng' = W.rng
    /\ err' = W.err
    /\ net' = W.ret
    /\ call' = c
    /\ pc' = IF W.err = NoErr THEN "built" ELSE "failed"
    /\ UNCHANGED <<out, models, optims, writes>>

\* what the caller is left with after a forward call
Forwarded(o, e) ==
    /\ out' = o
    /\ err' = e
    /\ pc' = IF e = NoErr THEN "forwarded" ELSE "failed"
    /\ UNCHANGED <<heap, rng, call, net, models, optims, writes>>

\* net = MLP(...), the activations defaulted or made by the caller
NewMLP ==
    /\ pc = "start"
    /\ \E input_size \in SizeVals, output_size \in SizeVals,
          hidden_sizes \in SeqsUpTo(SizeVals, MaxHidden),
          explicit \in BOOLEAN, zfr \in Builds :
        \E Wa \in {IF explicit THEN NewActivation(World(heap, rng), "Tanh")
                    ELSE World(heap, rng)} :
        \E Wb \in {IF explicit THEN NewActivation(Wa, "ReLU") ELSE Wa} :
        \E oa \in {IF explicit THEN Wa.ret ELSE MLP_output_activation} :
        \E ha \in {IF explicit THEN Wb.ret ELSE MLP_hidden_activation} :
        \E W \in {MLP_init(Wb, input_size, hidden_sizes, output_size, oa, ha, zfr)} :
            Constructed(W,
                        [NoCall EXCEPT !.kind = "MLP", !.input_size = input_size,
                                       !.hidden_sizes = hidden_sizes,
                                       !.output_size = output_size,
                                       !.output_activation = oa,
                                       !.hidden_activation = ha])

\* net(x) for an MLP
ForwardMLP ==
    /\ pc = "built"
    /\ call.kind = "MLP"
    /\ \E batch \in 1..MaxBatch, width \in 0..MaxSize :
        \E x \in {Tensor(batch, width)} :
        \E y \in {MLP_forward(heap, net, x)} :
            Forwarded([NoOut EXCEPT !.dist = "tensor", !.mu = y, !.x = x], y.err)

NextMLP == NewMLP \/ ForwardMLP

SpecMLP == InitLib /\ [][NextMLP]_vars

----------------------------------------------------------------------------
(* Properties of MLP. *)

\* the sizes the contract of the constructor allows
ValidSizes(c) ==
    /\ c.input_size > 0
    /\ c.output_size >= 0
    /\ \A i \in 1..Len(c.hidden_sizes) : c.hidden_sizes[i] > 0

\* a negative input or output size, or a hidden size <= 0
BadSizes(c) ==
    \/ c.input_size < 0
    \/ c.output_size < 0
    \/ \E i \in 1..Len(c.hidden_sizes) : c.hidden_sizes[i] <= 0

\* the registered children of the MLP's fcs container
Fcs(h, m) == h[Child(h, m, "fcs", -1)].children

\* the affine layers of an MLP, in order
Affines(h, m) ==
    SelectSeq([i \in 1..Len(Fcs(h, m)) |-> Fcs(h, m)[i].id],
              LAMBDA id : h[id].kind = "Linear")

\* the width the contract promises for the forward output
DeclaredWidth(c) ==
    IF c.output_size > 0 THEN c.output_size
    ELSE IF c.hidden_sizes # <<>> THEN c.hidden_sizes[Len(c.hidden_sizes)]
    ELSE c.input_size

\* C2: an MLP constructed with a negative input_size or output_size, or
\* with a hidden size <= 0, fails with InvalidTopologyError and leaves no
\* network object.
C2_BadSizesRejected ==
    (call.kind = "MLP" /\ BadSizes(call))
        => (err = "InvalidTopologyError" /\ net = 0)

\* what the constructor does with a negative input_size when there is no
\* layer to build: it returns a network
C2_BuiltDespiteBadSizes ==
    /\ call.kind = "MLP"
    /\ call.input_size < 0
    /\ call.hidden_sizes = <<>>
    /\ call.output_size = 0
    /\ pc = "built"
    /\ net # 0
    /\ err = NoErr

\* C6: for valid sizes the MLP is constructed, its affine layers chain
\* (the first takes input_size, each next takes what the previous one
\* gives), and the forward output of an input of width input_size has the
\* width output_size if output_size > 0, else the last hidden width, else
\* input_size.
C6_OutputWidth ==
    (call.kind = "MLP" /\ ValidSizes(call)) =>
        /\ net # 0
        /\ LET A == Affines(heap, net)
           IN  /\ A # <<>> => heap[A[1]].inF = call.input_size
               /\ \A i \in 1..(Len(A) - 1) : heap[A[i]].outF = heap[A[i + 1]].inF
               /\ A # <<>> => heap[A[Len(A)]].outF = DeclaredWidth(call)
        /\ (out.x.src = "x" /\ out.x.width = call.input_size) =>
               /\ pc = "forwarded"
               /\ out.mu.width = DeclaredWidth(call)
               /\ out.mu.batch = out.x.batch

\* C6 witness: a forward through two hidden layers of different widths and
\* no output layer returns the last hidden width
C6_Witness ==
    /\ pc = "forwarded"
    /\ call.kind = "MLP"
    /\ ValidSizes(call)
    /\ call.output_size = 0
    /\ Len(call.hidden_sizes) = 2
    /\ call.hidden_sizes[1] # call.hidden_sizes[2]
    /\ call.hidden_sizes[2] # call.input_size
    /\ out.mu.width = call.hidden_sizes[2]

\* the modules a forward pass goes through: the children that are not the
\* empty container (which returns its input)
Applied(h, kids) ==
    SelectSeq([i \in 1..Len(kids) |-> kids[i].id],
              LAMBDA id : h[id].kind # "Sequential")

\* C7: the fcs sequence of a constructed MLP is one (affine, hidden
\* activation) pair per hidden size, in order, then one (affine, output
\* activation) pair exactly when output_size > 0; the forward pass applies
\* these modules in this order, and with no hidden size and output_size 0
\* it returns its input unchanged.
C7_ModuleSequence ==
    (call.kind = "MLP" /\ net # 0) =>
        LET kids == Fcs(heap, net)
            n    == Len(call.hidden_sizes)
        IN  /\ Len(kids) = 2 * n + (IF call.output_size > 0 THEN 2 ELSE 0)
            /\ \A i \in 1..n :
                /\ kids[2 * i - 1].name = "hidden_fc"
                /\ kids[2 * i - 1].idx = i - 1
                /\ heap[kids[2 * i - 1].id].kind = "Linear"
                /\ heap[kids[2 * i - 1].id].outF = call.hidden_sizes[i]
                /\ kids[2 * i].name = "hidden_fc_act"
                /\ kids[2 * i].idx = i - 1
                /\ kids[2 * i].id = call.hidden_activation
            /\ call.output_size > 0 =>
                /\ kids[2 * n + 1].name = "output"
                /\ heap[kids[2 * n + 1].id].kind = "Linear"
                /\ heap[kids[2 * n + 1].id].outF = call.output_size
                /\ kids[2 * n + 2].name = "output_act"
                /\ kids[2 * n + 2].id = call.output_activation
            /\ pc = "forwarded" => out.mu.ops = Applied(heap, kids)
            /\ (pc = "forwarded" /\ n = 0 /\ call.output_size = 0) => out.mu = out.x

\* C7 witness: a forward through two hidden pairs and the output pair
C7_Witness ==
    /\ pc = "forwarded"
    /\ call.kind = "MLP"
    /\ Len(call.hidden_sizes) = 2
    /\ call.output_size > 0
    /\ Len(out.mu.ops) = 6
    /\ heap[out.mu.ops[6]].kind = "Tanh"

\* the pass-through case of C7: no layer at all
C7_PassThrough ==
    /\ pc = "forwarded"
    /\ call.kind = "MLP"
    /\ call.hidden_sizes = <<>>
    /\ call.output_size = 0
    /\ out.mu = out.x

HeadHiddenSizes == SeqsUpTo(SizeVals, MaxHeadHidden)

\* net = NormalDistMLP(...)
NewNormalDistMLP ==
    /\ pc = "start"
    /\ \E input_size \in SizeVals, output_size \in SizeVals,
          hidden_sizes \in HeadHiddenSizes,
          share_net \in BOOLEAN, std_ones \in BOOLEAN,
          explicit \in BOOLEAN, zfr \in Builds :
        \E Wa \in {IF explicit THEN NewActivation(World(heap, rng), "Tanh")
                    ELSE World(heap, rng)} :
        \E Wb \in {IF explicit THEN NewActivation(Wa, "ReLU") ELSE Wa} :
        \E Wc \in {IF explicit THEN NewActivation(Wb, "ReLU") ELSE Wb} :
        \E ma \in {IF explicit THEN Wa.ret ELSE NormalDistMLP_mu_activation} :
        \E sa \in {IF explicit THEN Wb.ret ELSE NormalDistMLP_sigma_activation} :
        \E ha \in {IF explicit THEN Wc.ret ELSE NormalDistMLP_hidden_activation} :
        \E W \in {NormalDistMLP_init(Wc, input_size, hidden_sizes, output_size,
                                           ma, sa, ha, share_net, std_ones, zfr)} :
            Constructed(W,
                        [NoCall EXCEPT !.kind = "NormalDistMLP",
                                       !.input_size = input_size,
                                       !.hidden_sizes = hidden_sizes,
                                       !.output_size = output_size,
                                       !.output_activation = ma,
                                       !.sigma_activation = sa,
                                       !.hidden_activation = ha,
                                       !.share_net = share_net,
                                       !.std_ones = std_ones])

\* net(x) for a NormalDistMLP; raw is the least element of sigma.  When
\* Normal raises, mu and sigma were computed and no distribution is returned
ForwardNormalDistMLP ==
    /\ pc = "built"
    /\ call.kind = "NormalDistMLP"
    /\ \E batch \in 1..MaxBatch, width \in 0..MaxSize :
        \E x \in {Tensor(batch, width)} :
        \E d \in {NormalDistMLP_forward(heap, net, x)} :
            IF HeadErr(d.mu, d.sigma) # NoErr
            THEN Forwarded([NoOut EXCEPT !.mu = d.mu, !.sigma = d.sigma, !.x = x],
                           HeadErr(d.mu, d.sigma))
            ELSE \E raw \in RawValues(heap, d.sigma), validate_args \in Builds :
                 \E e \in {Normal(d.sigma, raw, validate_args)} :
                    Forwarded([NoOut EXCEPT
                                 !.dist = IF e = NoErr THEN d.dist ELSE "none",
                                 !.mu = d.mu, !.sigma = d.sigma,
                                 !.x = x, !.raw = raw],
                              e)

NextNormal == NewNormalDistMLP \/ ForwardNormalDistMLP

SpecNormal == InitLib /\ [][NextNormal]_vars

----------------------------------------------------------------------------
(* Properties of NormalDistMLP. *)

\* the names under which a module registered its children
ChildNames(h, m) == {h[m].children[i].name : i \in 1..Len(h[m].children)}

\* the affine modules at or below m
AffinesBelow(h, m) == {id \in Range(ModuleSeq(h, m)) : h[id].kind = "Linear"}

\* m is nn.Sequential(affine, activation): one affine layer to `width`
IsProjection(h, m, width, activation) ==
    /\ h[m].kind = "Sequential"
    /\ Len(h[m].children) = 2
    /\ h[h[m].children[1].id].kind = "Linear"
    /\ h[h[m].children[1].id].outF = width
    /\ h[m].children[2].id = activation

\* m is an MLP over the call's hidden sizes, with or without output layer
IsMLPOf(h, m, c, output_size) ==
    /\ h[m].kind = "MLP"
    /\ Len(Fcs(h, m)) = 2 * Len(c.hidden_sizes) + (IF output_size > 0 THEN 2 ELSE 0)
    /\ \A i \in 1..Len(c.hidden_sizes) :
           heap[Fcs(h, m)[2 * i - 1].id].outF = c.hidden_sizes[i]

\* C5: whatever (std_ones, share_net) are, exactly one of three paths is
\* built and forward follows the same one: std_ones gives a mean network
\* only, and forward always returns, with sigma = ones shaped like mu; else
\* share_net gives one trunk MLP without output layer feeding two separate
\* one-affine projections; else two independent full MLPs.  Without
\* std_ones forward computes mu and sigma along the built path and then
\* either returns or stops in Normal's ValueError for a sigma that is not
\* positive.
C5_ThreePaths ==
    (call.kind = "NormalDistMLP" /\ net # 0) =>
        LET mu     == Child(heap, net, "mu", -1)
            sigma  == Child(heap, net, "sigma", -1)
            trunk  == Child(heap, net, "hidden_layer", -1)
            fwd    == out.x.src = "x" /\ out.x.width = call.input_size
                      /\ ValidSizes(call) /\ call.output_size > 0
            ran    == \/ pc = "forwarded"
                      \/ pc = "failed" /\ err = "ValueError" /\ out.x.src = "x"
        IN  /\ fwd => ran
            /\ (fwd /\ call.std_ones) => pc = "forwarded"
            /\ (pc = "failed" /\ err = "ValueError") =>
                   ~call.std_ones /\ out.raw <= 0 /\ out.dist = "none"
            /\ pc = "forwarded" =>
                   out.dist = "Normal" /\ out.mu.width = out.sigma.width
            /\ call.std_ones =>
                /\ ChildNames(heap, net) = {"mu"}
                /\ IsMLPOf(heap, mu, call, call.output_size)
                /\ AffinesBelow(heap, net) = AffinesBelow(heap, mu)
                /\ pc = "forwarded" =>
                    /\ out.mu.ops = Applied(heap, Fcs(heap, mu))
                    /\ out.sigma = ones_like(out.mu)
                    /\ out.sigma.src = "ones"
                    /\ out.sigma.width = out.mu.width
                    /\ out.sigma.batch = out.mu.batch
            /\ (~call.std_ones /\ call.share_net) =>
                /\ ChildNames(heap, net) = {"hidden_layer", "mu", "sigma"}
                /\ IsMLPOf(heap, trunk, call, 0)
                /\ IsProjection(heap, mu, call.output_size, call.output_activation)
                /\ IsProjection(heap, sigma, call.output_size, call.sigma_activation)
                /\ mu # sigma
                /\ AffinesBelow(heap, mu) \cap AffinesBelow(heap, sigma) = {}
                /\ ran =>
                    /\ out.mu.ops = Applied(heap, Fcs(heap, trunk))
                                      \o Applied(heap, heap[mu].children)
                    /\ out.sigma.ops = Applied(heap, Fcs(heap, trunk))
                                         \o Applied(heap, heap[sigma].children)
                    /\ out.sigma.src = "x"
            /\ (~call.std_ones /\ ~call.share_net) =>
                /\ ChildNames(heap, net) = {"mu", "sigma"}
                /\ IsMLPOf(heap, mu, call, call.output_size)
                /\ IsMLPOf(heap, sigma, call, call.output_size)
                /\ mu # sigma
                /\ AffinesBelow(heap, mu) \cap AffinesBelow(heap, sigma) = {}
                /\ Range(Parameters(heap, mu)) \cap Range(Parameters(heap, sigma)) = {}
                /\ ran =>
                    /\ out.mu.ops = Applied(heap, Fcs(heap, mu))
                    /\ out.sigma.ops = Applied(heap, Fcs(heap, sigma))
                    /\ out.sigma.src = "x"

\* C5 witness: both flags set, and forward returned ones shaped like mu
C5_Witness ==
    /\ pc = "forwarded"
    /\ call.kind = "NormalDistMLP"
    /\ call.std_ones
    /\ call.share_net
    /\ out.sigma.src = "ones"
    /\ out.sigma.width = call.output_size
    /\ out.mu.ops # <<>>

LogStdVals == {DefaultLogStdMin, DefaultLogStdMax}

\* net = GaussianDistMLP(...)
NewGaussianDistMLP ==
    /\ pc = "start"
    /\ \E input_size \in SizeVals, output_size \in SizeVals,
          hidden_sizes \in HeadHiddenSizes, share_net \in BOOLEAN,
          log_std_min \in LogStdVals, log_std_max \in LogStdVals,
          explicit \in BOOLEAN, zfr \in Builds :
        \E Wa \in {IF explicit THEN NewActivation(World(heap, rng), "Tanh")
                    ELSE World(heap, rng)} :
        \E Wb \in {IF explicit THEN NewActivation(Wa, "ReLU") ELSE Wa} :
        \E Wc \in {IF explicit THEN NewActivation(Wb, "ReLU") ELSE Wb} :
        \E ma \in {IF explicit THEN Wa.ret ELSE GaussianDistMLP_mu_activation} :
        \E sa \in {IF explicit THEN Wb.ret ELSE GaussianDistMLP_sigma_activation} :
        \E ha \in {IF explicit THEN Wc.ret ELSE GaussianDistMLP_hidden_activation} :
        \E W \in {GaussianDistMLP_init(Wc, input_size, hidden_sizes, output_size,
                                             ma, sa, ha, share_net,
                                             log_std_min, log_std_max, zfr)} :
            Constructed(W,
                        [NoCall EXCEPT !.kind = "GaussianDistMLP",
                                       !.input_size = input_size,
                                       !.hidden_sizes = hidden_sizes,
                                       !.output_size = output_size,
                                       !.output_activation = ma,
                                       !.sigma_activation = sa,
                                       !.hidden_activation = ha,
                                       !.share_net = share_net,
                                       !.log_std_min = log_std_min,
                                       !.log_std_max = log_std_max])

\* net(x) for a GaussianDistMLP; raw is the value the sigma branch produced
ForwardGaussianDistMLP ==
    /\ pc = "built"
    /\ call.kind = "GaussianDistMLP"
    /\ \E batch \in 1..MaxBatch, width \in 0..MaxSize :
        \E x \in {Tensor(batch, width)} :
        \E d \in {GaussianDistMLP_branches(heap, net, x)} :
            IF HeadErr(d.mu, d.sigma) # NoErr
            THEN Forwarded([NoOut EXCEPT !.mu = d.mu, !.sigma = d.sigma, !.x = x],
                           HeadErr(d.mu, d.sigma))
            ELSE \E raw \in RawValues(heap, d.sigma) :
                    Forwarded([NoOut EXCEPT
                                 !.dist = d.dist, !.mu = d.mu, !.sigma = d.sigma,
                                 !.x = x, !.raw = raw,
                                 !.log_std = LogStd(heap[net].log_std_min,
                                                    heap[net].log_std_max, raw)],
                              NoErr)

NextGaussian == NewGaussianDistMLP \/ ForwardGaussianDistMLP

SpecGaussian == InitLib /\ [][NextGaussian]_vars

----------------------------------------------------------------------------
(* Properties of GaussianDistMLP. *)

\* a forward pass whose sigma branch produced a value within [-1, 1]
GaussianForwarded ==
    /\ pc = "forwarded"
    /\ call.kind = "GaussianDistMLP"
    /\ -RawScale <= out.raw
    /\ out.raw <= RawScale

\* C3 as stated: for raw in [-1, 1] log_std is strictly between
\* log_std_min and log_std_max, so std is strictly within
\* (exp(log_std_min), exp(log_std_max)).  Read in the claim's favour: only
\* for bounds that satisfy the precondition log_std_min < log_std_max.
C3_StrictlyInside ==
    (GaussianForwarded /\ heap[net].log_std_min < heap[net].log_std_max) =>
        /\ LogStdDen * heap[net].log_std_min < out.log_std
        /\ out.log_std < LogStdDen * heap[net].log_std_max

\* C3 amended: for raw in [-1, 1] log_std is within the closed interval
\* between log_std_min and log_std_max; raw = -1 gives log_std_min and
\* raw = 1 gives log_std_max exactly.
C3_WithinClosed ==
    GaussianForwarded =>
        LET lo == heap[net].log_std_min
            hi == heap[net].log_std_max
        IN  /\ LogStdDen * Min2(lo, hi) <= out.log_std
            /\ out.log_std <= LogStdDen * Max2(lo, hi)
            /\ out.raw = -RawScale => out.log_std = LogStdDen * lo
            /\ out.raw = RawScale => out.log_std = LogStdDen * hi

\* C3 witness: the default tanh branch saturated at 1 under the default
\* bounds, and log_std is log_std_max itself
C3_Witness ==
    /\ GaussianForwarded
    /\ call.sigma_activation = GaussianDistMLP_sigma_activation
    /\ heap[net].log_std_min = DefaultLogStdMin
    /\ heap[net].log_std_max = DefaultLogStdMax
    /\ out.raw = RawScale
    /\ out.log_std = LogStdDen * DefaultLogStdMax

\* C4: a GaussianDistMLP with log_std_min >= log_std_max is refused by the
\* constructor with InvalidTopologyError, so none ever reaches forward.
\* Stated for calls whose sizes are valid, so that the bounds are the only
\* thing the constructor could object to.
C4_InvertedBoundsRejected ==
    (/\ call.kind = "GaussianDistMLP"
     /\ ValidSizes(call)
     /\ call.output_size > 0
     /\ call.log_std_min >= call.log_std_max)
        => (err = "InvalidTopologyError" /\ net = 0 /\ pc = "failed")

\* a head with inverted bounds that went through forward
C4_InvertedForwarded ==
    /\ pc = "forwarded"
    /\ call.kind = "GaussianDistMLP"
    /\ heap[net].log_std_min > heap[net].log_std_max
    /\ out.log_std < LogStdDen * heap[net].log_std_min

\* net = CategoricalMLP(...)
NewCategoricalMLP ==
    /\ pc = "start"
    /\ \E input_size \in SizeVals, output_size \in SizeVals,
          hidden_sizes \in HeadHiddenSizes,
          explicit \in BOOLEAN, zfr \in Builds :
        \E Wa \in {IF explicit THEN NewActivation(World(heap, rng), "Softmax")
                    ELSE World(heap, rng)} :
        \E Wb \in {IF explicit THEN NewActivation(Wa, "ReLU") ELSE Wa} :
        \E oa \in {IF explicit THEN Wa.ret ELSE CategoricalMLP_output_activation} :
        \E ha \in {IF explicit THEN Wb.ret ELSE CategoricalMLP_hidden_activation} :
        \E W \in {CategoricalMLP_init(Wb, input_size, output_size, hidden_sizes,
                                      oa, ha, zfr)} :
            Constructed(W,
                        [NoCall EXCEPT !.kind = "CategoricalMLP",
                                       !.input_size = input_size,
                                       !.hidden_sizes = hidden_sizes,
                                       !.output_size = output_size,
                                       !.output_activation = oa,
                                       !.hidden_activation = ha])

\* net(x) for a CategoricalMLP
ForwardCategoricalMLP ==
    /\ pc = "built"
    /\ call.kind = "CategoricalMLP"
    /\ \E batch \in 1..MaxBatch, width \in 0..MaxSize :
        \E x \in {Tensor(batch, width)} :
        \E y \in {CategoricalMLP_forward(heap, net, x)} :
            IF y.err # NoErr
            THEN Forwarded([NoOut EXCEPT !.mu = y, !.x = x], y.err)
            ELSE \E simplex \in SimplexOutcomes(heap, y), validate_args \in Builds :
                 \E e \in {Categorical(simplex, validate_args)} :
                    Forwarded([NoOut EXCEPT
                                 !.dist = IF e = NoErr THEN "Categorical" ELSE "none",
                                 !.mu = y, !.x = x],
                              e)

\* every constructor of the library
NextLib ==
    \/ NewMLP
    \/ ForwardMLP
    \/ NewNormalDistMLP
    \/ ForwardNormalDistMLP
    \/ NewGaussianDistMLP
    \/ ForwardGaussianDistMLP
    \/ NewCategoricalMLP
    \/ ForwardCategoricalMLP

SpecLib == InitLib /\ [][NextLib]_vars

----------------------------------------------------------------------------
(* Properties of the initializer pass. *)

\* C9: over the whole construction of a network of any type, the
\* initializer is applied to each owned affine layer exactly once, also to
\* the layers of an MLP that a distribution head owns.
C9_InitializedOnce ==
    net # 0 => \A m \in AffinesBelow(heap, net) : heap[m].ninit = 1

\* a CategoricalMLP whose inner MLP had its layers initialized twice
C9_InitializedTwice ==
    /\ call.kind = "CategoricalMLP"
    /\ net # 0
    /\ AffinesBelow(heap, net) # {}
    /\ \A m \in AffinesBelow(heap, net) : heap[m].ninit = 2

\* what the constructors do: an affine layer is initialized once by the
\* apply pass of every constructor it is below, so once in a plain MLP
\* and as a direct projection of a head, twice inside an MLP that a head owns
InitializedPerOwner ==
    net # 0 =>
        \A m \in AffinesBelow(heap, net) :
            heap[m].ninit =
                IF call.kind = "MLP" THEN 1
                ELSE IF \E p \in Range(ModuleSeq(heap, net)) :
                            heap[p].kind = "Sequential" /\ heap[p].children # <<>>
                            /\ heap[p].children[1].id = m
                            /\ heap[p].children[1].name = ""
                     THEN 1
                ELSE 2

----------------------------------------------------------------------------
(* projects/policy_based/TD3_BipedalWalker-v2.py: Project.init_model *)

\* hyperparams['actor_hidden_sizes'] and hyperparams['critic_hidden_sizes']
ActorHiddenSizes == <<400, 300>>

CriticHiddenSizes == <<400, 300>>

\* algorithms.utils.update.hard_update(source, target): every parameter of
\* target is overwritten, in place, with the value of source's
RECURSIVE hard_update_from(_, _, _, _)
hard_update_from(h, sp, tp, i) ==
    IF i > Len(sp) \/ i > Len(tp) THEN h
    ELSE Bind([h EXCEPT ![tp[i]].val = h[sp[i]].val],
              LAMBDA h1 : hard_update_from(h1, sp, tp, i + 1))

hard_update(h, source, target) ==
    hard_update_from(h, Parameters(h, source), Parameters(h, target), 1)

\* optimizers bound to the wrong networks
OptimNets_crossed ==
    [actor_optim |-> "actor", critic_optim1 |-> "critic1",
     critic_optim2 |-> "target_critic2"]

\* "actor_optim = optim.Adam(actor.parameters(), ...)" and the two next lines
OptimNets ==
    [actor_optim |-> "actor", critic_optim1 |-> "critic1",
     critic_optim2 |-> "critic2"]

\* hard updates with the critics' targets exchanged
HardUpdatePairs_crossed ==
    <<<<"actor", "target_actor">>, <<"critic1", "target_critic2">>,
      <<"critic2", "target_critic1">>>>

\* "hard_update(actor, target_actor)" and the two next lines: (source, target)
HardUpdatePairs ==
    <<<<"actor", "target_actor">>, <<"critic1", "target_critic1">>,
      <<"critic2", "target_critic2">>>>

\* the environment's sizes are the caller's
InitAssembly ==
    /\ heap = DefaultHeap
    /\ rng \in 0..MaxSeed
    /\ pc = "actor"
    /\ \E state_size \in 1..MaxSize, action_size \in 1..MaxSize :
           call = [NoCall EXCEPT !.kind = "init_model",
                                 !.input_size = state_size,
                                 !.output_size = action_size]
    /\ net = 0
    /\ err = NoErr
    /\ out = NoOut
    /\ models = <<>>
    /\ optims = <<>>
    /\ writes = 0

\* name = MLP(...).to(self.device); Module.to returns the module itself
Assigned(W, name, next) ==
    /\ W.err = NoErr
    /\ heap' = W.heap
    /\ rng' = W.rng
    /\ models' = models @@ (name :> W.ret)
    /\ pc' = next
    /\ UNCHANGED <<call, net, err, out, optims, writes>>

\* an actor: state_size -> action_size, output activation a new nn.Tanh()
ActorMLP(zfr) ==
    Bind(NewActivation(World(heap, rng), "Tanh"), LAMBDA Wa :
         MLP_init(Wa, call.input_size, ActorHiddenSizes, call.output_size,
                  Wa.ret, MLP_hidden_activation, zfr))

\* a critic: state_size + action_size -> 1, the activations defaulted
CriticMLP(zfr) ==
    MLP_init(World(heap, rng), call.input_size + call.output_size,
             CriticHiddenSizes, 1, MLP_output_activation, MLP_hidden_activation, zfr)

MakeActor ==
    /\ pc = "actor"
    /\ \E zfr \in Builds : \E W \in {ActorMLP(zfr)} :
           Assigned(W, "actor", "target_actor")

MakeTargetActor ==
    /\ pc = "target_actor"
    /\ \E zfr \in Builds : \E W \in {ActorMLP(zfr)} :
           Assigned(W, "target_actor", "critic1")

MakeCritic1 ==
    /\ pc = "critic1"
    /\ \E zfr \in Builds : \E W \in {CriticMLP(zfr)} :
           Assigned(W, "critic1", "critic2")

MakeCritic2 ==
    /\ pc = "critic2"
    /\ \E zfr \in Builds : \E W \in {CriticMLP(zfr)} :
           Assigned(W, "critic2", "target_critic1")

MakeTargetCritic1 ==
    /\ pc = "target_critic1"
    /\ \E zfr \in Builds : \E W \in {CriticMLP(zfr)} :
           Assigned(W, "target_critic1", "target_critic2")

MakeTargetCritic2 ==
    /\ pc = "target_critic2"
    /\ \E zfr \in Builds : \E W \in {CriticMLP(zfr)} :
           Assigned(W, "target_critic2", "optims")

\* the three optim.Adam(<net>.parameters(), lr)
MakeOptims ==
    /\ pc = "optims"
    /\ optims' = [o \in DOMAIN OptimNets |-> Parameters(heap, models[OptimNets[o]])]
    /\ pc' = "hard_update_1"
    /\ UNCHANGED <<heap, rng, call, net, err, out, models, writes>>

\* the i-th hard_update call
HardUpdateCall(i, next) ==
    /\ heap' = hard_update(heap, models[HardUpdatePairs[i][1]],
                           models[HardUpdatePairs[i][2]])
    /\ pc' = next
    /\ UNCHANGED <<rng, call, net, err, out, models, optims, writes>>

HardUpdateActor == pc = "hard_update_1" /\ HardUpdateCall(1, "hard_update_2")

HardUpdateCritic1 == pc = "hard_update_2" /\ HardUpdateCall(2, "hard_update_3")

HardUpdateCritic2 == pc = "hard_update_3" /\ HardUpdateCall(3, "return")

\* "return {...}": the six networks and the three optimizers
Return ==
    /\ pc = "return"
    /\ pc' = "returned"
    /\ UNCHANGED <<heap, rng, call, net, err, out, models, optims, writes>>

\* the algorithm collaborator writes one parameter of one network
WriteParam ==
    /\ pc = "returned"
    /\ writes < MaxWrites
    /\ \E name \in DOMAIN models :
       \E ps \in {Parameters(heap, models[name])} :
       \E i \in 1..Len(ps) :
           heap' = [heap EXCEPT ![ps[i]].val = @ + 1]
    /\ writes' = writes + 1
    /\ UNCHANGED <<rng, pc, call, net, err, out, models, optims>>

\* an optimizer steps: every parameter it is bound to is written
RECURSIVE StepAll(_, _, _)
StepAll(h, ps, i) ==
    IF i > Len(ps) THEN h
    ELSE Bind([h EXCEPT ![ps[i]].val = @ - 1], LAMBDA h1 : StepAll(h1, ps, i + 1))

OptimStep ==
    /\ pc = "returned"
    /\ writes < MaxWrites
    /\ \E o \in DOMAIN optims : heap' = StepAll(heap, optims[o], 1)
    /\ writes' = writes + 1
    /\ UNCHANGED <<rng, pc, call, net, err, out, models, optims>>

NextAssembly ==
    \/ MakeActor
    \/ MakeTargetActor
    \/ MakeCritic1
    \/ MakeCritic2
    \/ MakeTargetCritic1
    \/ MakeTargetCritic2
    \/ MakeOptims
    \/ HardUpdateActor
    \/ HardUpdateCritic1
    \/ HardUpdateCritic2
    \/ Return
    \/ WriteParam
    \/ OptimStep

SpecAssembly == InitAssembly /\ [][NextAssembly]_vars

----------------------------------------------------------------------------
(* Properties of init_model. *)

\* each target network with its live network
LiveOf == [target_actor |-> "actor", target_critic1 |-> "critic1",
           target_critic2 |-> "critic2"]

\* the parameter tensors of a named network
ParamsOf(name) == Parameters(heap, models[name])

ParamsOfNext(name) == Parameters(heap', models'[name])

\* C1, at the return: every parameter of a target equals the corresponding
\* parameter of its own live network, and is another tensor
TargetsCopied ==
    (pc = "returned" /\ writes = 0) =>
        \A t \in DOMAIN LiveOf :
            LET tp == ParamsOf(t)
                lp == ParamsOf(LiveOf[t])
            IN  /\ Len(tp) = Len(lp)
                /\ Len(tp) > 0
                /\ \A i \in 1..Len(tp) :
                    /\ heap[tp[i]].val = heap[lp[i]].val
                    /\ heap[tp[i]].inF = heap[lp[i]].inF
                    /\ heap[tp[i]].outF = heap[lp[i]].outF
                /\ Range(tp) \cap Range(lp) = {}

\* C1, after the return: no step that writes a live parameter changes a
\* parameter of its target, and none that writes a target parameter changes
\* a parameter of its live network
WritesStayApart ==
    pc = "returned" =>
        \A t \in DOMAIN LiveOf :
        \A tp \in {ParamsOf(t)} :
        \A lp \in {ParamsOf(LiveOf[t])} :
            ~ /\ \E i \in 1..Len(tp) : heap'[tp[i]] # heap[tp[i]]
              /\ \E i \in 1..Len(lp) : heap'[lp[i]] # heap[lp[i]]

\* C1: right after init_model returns each target network holds a copy of
\* its own live network's parameters in tensors of its own: equal values,
\* and a later write on either side leaves the other side unchanged.
C1_TargetHardCopy == []TargetsCopied /\ [][WritesStayApart]_vars

\* C1 witness: a live parameter was written after the return and differs
\* from its target's, which still holds the copied value
C1_Witness ==
    /\ pc = "returned"
    /\ writes = 1
    /\ \E i \in 1..Len(ParamsOf("critic2")) :
           heap[ParamsOf("critic2")[i]].val = heap[ParamsOf("target_critic2")[i]].val + 1
    /\ \E i \in 1..Len(ParamsOf("critic1")) :
           heap[ParamsOf("critic1")[i]].val # heap[ParamsOf("critic2")[i]].val

\* the optimizer the contract gives each live network
OptimOf == [actor |-> "actor_optim", critic1 |-> "critic_optim1",
            critic2 |-> "critic_optim2"]

AfterOptims ==
    pc \in {"hard_update_1", "hard_update_2", "hard_update_3", "return", "returned"}

\* C8, the bindings: three optimizers, each bound to the parameters of its
\* live network and to no parameter of any other network
OptimsBound ==
    AfterOptims =>
        /\ DOMAIN optims = {"actor_optim", "critic_optim1", "critic_optim2"}
        /\ \A n \in DOMAIN OptimOf :
            /\ optims[OptimOf[n]] = ParamsOf(n)
            /\ optims[OptimOf[n]] # <<>>
            /\ \A m \in DOMAIN models \ {n} :
                   Range(optims[OptimOf[n]]) \cap Range(ParamsOf(m)) = {}

\* C8, the frame: a hard copy changes no live parameter and no binding
HardCopyFrame ==
    pc \in {"hard_update_1", "hard_update_2", "hard_update_3"} =>
        /\ optims' = optims
        /\ \A n \in DOMAIN OptimOf :
           \A lp \in {ParamsOf(n)} :
               /\ \A i \in 1..Len(lp) : heap'[lp[i]] = heap[lp[i]]
               /\ ParamsOfNext(n) = lp

\* C8: init_model creates exactly three optimizers, one per live network,
\* each bound to that network's parameters only and to no target's; the
\* hard copies that follow leave the live parameters and the bindings as
\* they were.
C8_OptimizersBound == []OptimsBound /\ [][HardCopyFrame]_vars

\* C8 witness: returned, the targets were overwritten by the copies (they
\* differed before) and the three optimizers hold the live parameters
C8_Witness ==
    /\ pc = "returned"
    /\ writes = 0
    /\ Len(optims["critic_optim2"]) = 6
    /\ optims["critic_optim2"] = ParamsOf("critic2")
    /\ \E i \in 1..6 : heap[ParamsOf("critic1")[i]].val # heap[ParamsOf("critic2")[i]].val

\* the activation objects a network uses, one entry per use site
ActivationSites(name) ==
    SelectSeq([i \in 1..Len(Fcs(heap, models[name])) |-> Fcs(heap, models[name])[i].id],
              LAMBDA id : heap[id].kind # "Linear")

\* C10: no activation object is shared between two networks built by
\* separate constructor calls, and within one network every use site has
\* an activation object of its own.
C10_ActivationsOwned ==
    pc = "returned" =>
        /\ \A n1 \in DOMAIN models : \A n2 \in DOMAIN models \ {n1} :
               Range(ActivationSites(n1)) \cap Range(ActivationSites(n2)) = {}
        /\ \A n \in DOMAIN models :
               \A i \in 1..Len(ActivationSites(n)) :
                   \A j \in 1..Len(ActivationSites(n)) :
                       i # j => ActivationSites(n)[i] # ActivationSites(n)[j]

\* what init_model builds: critic1 and critic2 run through the one ReLU and
\* the one identity object that are MLP's default arguments
C10_Shared ==
    /\ pc = "returned"
    /\ ActivationSites("critic1") = ActivationSites("critic2")
    /\ ActivationSites("critic1")[1] = MLP_hidden_activation
    /\ ActivationSites("critic1")[2] = MLP_hidden_activation
    /\ ActivationSites("critic1")[3] = MLP_output_activation
    /\ ActivationSites("actor")[1] = MLP_hidden_activation
    /\ ActivationSites("actor")[3] # ActivationSites("target_actor")[3]

====
